---- MODULE Spec2Model ----
(***************************************************************************)
(* watson-camera: the change-detection and notification loop of the final  *)
(* version of the program (src/unnamed/part_001, lines 162-342).           *)
(*                                                                         *)
(* Time is the value of Date.now() in milliseconds.  Every await of the    *)
(* program (snapshot read, artifact write, classifier call, mail send) is  *)
(* an external call that completes or fails after an arbitrary time; each  *)
(* continuation of the async function handleDetect is one action.          *)
(***************************************************************************)
EXTENDS Integers, Sequences, FiniteSets, TLC

VARIABLES
  now,              \* Date.now()
  main,             \* position of the start-up code: "init", "started", "dead"
  lastImage,        \* let lastImage
  currentImage,     \* let currentImage
  lastDetectionAt,  \* let lastDetectionAt
  inv,              \* the handleDetect invocations not yet handed back to loop's .then
  timers,           \* due times of the pending setTimeout(loop, ...) timers
  ticks,            \* number of loop() calls so far
  files,            \* the ./temp/detection-<t>.jpg artifacts on disk, by <t>
  sent,             \* the mails accepted by the transport, in order
  prev,             \* summary of the last cycle handed back to loop's .then
  acquired          \* the two frames most recently read from the camera, oldest first

vars == <<now, main, lastImage, currentImage, lastDetectionAt, inv, timers,
          ticks, files, sent, prev, acquired>>

----------------------------------------------------------------------------
(* Program constants and model bounds *)

CooldownMs == 2000
IntervalMs == 1000
\* config.diffThreshold (0.05) and jimp's diff.percent, both in hundredths
diffThreshold == 5
confidenceThreshold == 80
cameraName == "cam"

\* granularity of the clock and length of the observed run, in ms
Step == 500
Horizon == 3000
\* Date.now() is far more than one cooldown after the epoch (lastDetectionAt = 0)
StartTime == CooldownMs
MaxTime == StartTime + Horizon

\* null image, and the images the camera can deliver (a brightness level each)
Null == -1
Frames == {0, 5, 12}
NoTime == 0 - 1

\* data.Labels answers of the classifier
Responses ==
  { <<>>,
    << [Name |-> "dog", Confidence |-> 92], [Name |-> "grass", Confidence |-> 40] >>,
    << [Name |-> "cat", Confidence |-> 80] >>,
    << [Name |-> "grass", Confidence |-> 85], [Name |-> "dog", Confidence |-> 92] >> }

----------------------------------------------------------------------------
(* Pure functions of the program *)

Abs(x) == IF x < 0 THEN 0 - x ELSE x

\* jimp.diff(a, b).percent, in hundredths
diffPercent(a, b) == Abs(a - b)

snapshotsSimilar_le(cur, last) == diffPercent(cur, last) <= diffThreshold
snapshotsSimilar(cur, last) == diffPercent(cur, last) < diffThreshold

\* the cooldown test of handleDetect
tooSoon_half(t, lda) == t - lda < IntervalMs
tooSoon(t, lda) == t - lda < CooldownMs

\* the value handleDetect assigns to lastDetectionAt once dissimilarity is confirmed
detectionCommit_never(t, lda) == lda
detectionCommit(t, lda) == t

\* data.Labels.filter(label => label.Confidence > threshold).map(label => label.Name)
RECURSIVE filterConfident_ge(_)
filterConfident_ge(Labels) ==
  IF Labels = <<>> THEN <<>>
  ELSE IF Head(Labels).Confidence >= confidenceThreshold
       THEN <<Head(Labels).Name>> \o filterConfident_ge(Tail(Labels))
       ELSE filterConfident_ge(Tail(Labels))
RECURSIVE filterConfident(_)
filterConfident(Labels) ==
  IF Labels = <<>> THEN <<>>
  ELSE IF Head(Labels).Confidence > confidenceThreshold
       THEN <<Head(Labels).Name>> \o filterConfident(Tail(Labels))
       ELSE filterConfident(Tail(Labels))

\* labels.join(', '), as the sequence of its pieces
RECURSIVE join(_)
join(labels) ==
  IF Len(labels) = 0 THEN <<>>
  ELSE IF Len(labels) = 1 THEN <<labels[1]>>
       ELSE <<labels[1], ", ">> \o join(Tail(labels))

getMessage_always(labels) ==
  <<"We have detected \"">> \o join(labels) \o <<"\" from the \"", cameraName, "\" camera.">>
getMessage(labels) ==
  IF Len(labels) = 0
  THEN <<"Detected something on \"", cameraName, "\"">>
  ELSE <<"We have detected \"">> \o join(labels) \o <<"\" from the \"", cameraName, "\" camera.">>

\* the synchronous head of handleSnapshot: current is moved into last
rotated_always(last, cur) == cur
rotated_never(last, cur) == last
rotated(last, cur) == IF cur # Null THEN cur ELSE last

\* the delay loop's .then hands to setTimeout
nextDelay_fixed(took) == IntervalMs
nextDelay(took) == IntervalMs - took

----------------------------------------------------------------------------
(* handleDetect invocations *)

NewInv(last0, cur0) ==
  [ pc            |-> "read",
    started       |-> now,
    target        |-> IF rotated(last0, cur0) # Null THEN "current" ELSE "last",
    lastBefore    |-> last0,
    currentBefore |-> cur0,
    checkedAt     |-> NoTime,
    detectedAt    |-> NoTime,
    commits       |-> 0,
    path          |-> NoTime,
    response      |-> <<>>,
    labels        |-> <<>>,
    message       |-> <<>>,
    classifyCalls |-> 0,
    notifyCalls   |-> 0,
    outcome       |-> "Running" ]

\* a return statement of handleDetect: its promise is fulfilled
returned(r, outcome) == [r EXCEPT !.pc = "resolved", !.outcome = outcome]

\* the catch block of handleDetect: the error is logged, false is returned
catchError_rethrow(r, outcome) == [r EXCEPT !.pc = "rejected", !.outcome = outcome]
catchError_retry(r, outcome) ==
  IF outcome = "ClassifyFailed"
  THEN [r EXCEPT !.pc = "classify", !.classifyCalls = r.classifyCalls + 1]
  ELSE [r EXCEPT !.pc = "resolved", !.outcome = outcome]
catchError(r, outcome) == [r EXCEPT !.pc = "resolved", !.outcome = outcome]

\* the timers pending once loop() has called handleDetect
loopTimers_eager(ts) == ts \cup {now + IntervalMs}
loopTimers(ts) == ts

\* what the start-up read stores into lastImage
startupImage_none(image) == Null
startupImage(image) == image

\* loop(): takes the start time and runs handleDetect up to its first await,
\* which is the synchronous head of handleSnapshot and the start of jimp.read
loopStart(last0, cur0, invBase, timersBase) ==
  /\ ticks' = ticks + 1
  /\ lastImage' = rotated(last0, cur0)
  /\ inv' = invBase @@ ((ticks + 1) :> NewInv(last0, cur0))
  /\ timers' = loopTimers(timersBase)

Without(f, i) == [j \in DOMAIN f \ {i} |-> f[j]]

----------------------------------------------------------------------------
Init ==
  /\ now = StartTime
  /\ main = "init"
  /\ lastImage = Null
  /\ currentImage = Null
  /\ lastDetectionAt = 0
  /\ inv = <<>>
  /\ timers = {}
  /\ ticks = 0
  /\ files = {}
  /\ sent = <<>>
  /\ prev = [tick |-> 0, outcome |-> "None", detectedAt |-> NoTime,
             endedAt |-> NoTime, took |-> NoTime]
  /\ acquired = <<Null, Null>>

\* the start-up jimp.read succeeds: lastImage is set and loop() is called
StartupReadOk ==
  /\ main = "init"
  /\ \E image \in Frames :
       /\ loopStart(startupImage(image), currentImage, inv, timers)
       /\ acquired' = <<acquired[2], image>>
  /\ main' = "started"
  /\ UNCHANGED <<now, currentImage, lastDetectionAt, files, sent, prev>>

StartupReadFail_startsLoop ==
  /\ main = "init"
  /\ loopStart(lastImage, currentImage, inv, timers)
  /\ main' = "started"
  /\ UNCHANGED <<now, currentImage, lastDetectionAt, files, sent, prev, acquired>>

\* the start-up jimp.read fails: the .catch logs it and nothing else runs
StartupReadFail ==
  /\ main = "init"
  /\ main' = "dead"
  /\ UNCHANGED <<now, lastImage, currentImage, lastDetectionAt, inv, timers,
                 ticks, files, sent, prev, acquired>>

ReadOk_commitEarly(i) ==
  /\ inv[i].pc = "read"
  /\ \E image \in Frames, diffThrows \in BOOLEAN :
       LET r == inv[i]
           newLast == IF r.target = "last" THEN image ELSE lastImage
           newCur == IF r.target = "current" THEN image ELSE currentImage
           rc == [r EXCEPT !.checkedAt = now]
       IN /\ acquired' = <<acquired[2], image>>
          /\ lastImage' = newLast
          /\ currentImage' = newCur
          /\ IF r.target = "last"
             THEN /\ inv' = [inv EXCEPT ![i] = returned(r, "NotReady")]
                  /\ UNCHANGED lastDetectionAt
             ELSE IF tooSoon(now, lastDetectionAt)
             THEN /\ inv' = [inv EXCEPT ![i] = returned(rc, "TooSoon")]
                  /\ UNCHANGED lastDetectionAt
             ELSE /\ lastDetectionAt' = detectionCommit(now, lastDetectionAt)
                  /\ IF diffThrows
                     THEN inv' = [inv EXCEPT ![i] = catchError(rc, "DiffFailed")]
                     ELSE IF snapshotsSimilar(newCur, newLast)
                     THEN inv' = [inv EXCEPT ![i] = returned(rc, "Similar")]
                     ELSE inv' = [inv EXCEPT ![i] =
                                    [rc EXCEPT !.pc = "write", !.detectedAt = now,
                                               !.commits = r.commits + 1, !.path = now]]
  /\ UNCHANGED <<now, main, timers, ticks, files, sent, prev>>

\* jimp.read of handleSnapshot succeeds; handleDetect runs on to its next
\* await (saveDetection) or to a return
ReadOk(i) ==
  /\ inv[i].pc = "read"
  /\ \E image \in Frames, diffThrows \in BOOLEAN :
       LET r == inv[i]
           newLast == IF r.target = "last" THEN image ELSE lastImage
           newCur == IF r.target = "current" THEN image ELSE currentImage
           rc == [r EXCEPT !.checkedAt = now]
       IN /\ acquired' = <<acquired[2], image>>
          /\ lastImage' = newLast
          /\ currentImage' = newCur
          /\ IF r.target = "last"
             THEN /\ inv' = [inv EXCEPT ![i] = returned(r, "NotReady")]
                  /\ UNCHANGED lastDetectionAt
             ELSE IF tooSoon(now, lastDetectionAt)
             THEN /\ inv' = [inv EXCEPT ![i] = returned(rc, "TooSoon")]
                  /\ UNCHANGED lastDetectionAt
             ELSE IF diffThrows
             THEN /\ inv' = [inv EXCEPT ![i] = catchError(rc, "DiffFailed")]
                  /\ UNCHANGED lastDetectionAt
             ELSE IF snapshotsSimilar(newCur, newLast)
             THEN /\ inv' = [inv EXCEPT ![i] = returned(rc, "Similar")]
                  /\ UNCHANGED lastDetectionAt
             ELSE /\ lastDetectionAt' = detectionCommit(now, lastDetectionAt)
                  /\ inv' = [inv EXCEPT ![i] =
                               [rc EXCEPT !.pc = "write", !.detectedAt = now,
                                          !.commits = r.commits + 1, !.path = now]]
  /\ UNCHANGED <<now, main, timers, ticks, files, sent, prev>>

\* jimp.read of handleSnapshot fails: the catch block ends the cycle
ReadFail(i) ==
  /\ inv[i].pc = "read"
  /\ inv' = [inv EXCEPT ![i] = catchError(inv[i], "AcquireFailed")]
  /\ UNCHANGED <<now, main, lastImage, currentImage, lastDetectionAt, timers,
                 ticks, files, sent, prev, acquired>>

\* currentImage.write succeeds: the artifact exists, getLabels reads it and
\* calls the classifier
WriteOk(i) ==
  /\ inv[i].pc = "write"
  /\ files' = files \cup {inv[i].path}
  /\ inv' = [inv EXCEPT ![i] = [inv[i] EXCEPT !.pc = "classify",
                                  !.classifyCalls = inv[i].classifyCalls + 1]]
  /\ UNCHANGED <<now, main, lastImage, currentImage, lastDetectionAt, timers,
                 ticks, sent, prev, acquired>>

WriteFail(i) ==
  /\ inv[i].pc = "write"
  /\ inv' = [inv EXCEPT ![i] = catchError(inv[i], "WriteFailed")]
  /\ UNCHANGED <<now, main, lastImage, currentImage, lastDetectionAt, timers,
                 ticks, files, sent, prev, acquired>>

\* detectLabels answers: the labels are filtered and sendDetection composes
\* the mail and calls the transport
ClassifyOk(i) ==
  /\ inv[i].pc = "classify"
  /\ \E resp \in Responses :
       LET labels == filterConfident(resp)
       IN inv' = [inv EXCEPT ![i] = [inv[i] EXCEPT !.pc = "notify",
                                      !.response = resp,
                                      !.labels = labels,
                                      !.message = getMessage(labels),
                                      !.notifyCalls = inv[i].notifyCalls + 1]]
  /\ UNCHANGED <<now, main, lastImage, currentImage, lastDetectionAt, timers,
                 ticks, files, sent, prev, acquired>>

ClassifyFail(i) ==
  /\ inv[i].pc = "classify"
  /\ inv' = [inv EXCEPT ![i] = catchError(inv[i], "ClassifyFailed")]
  /\ UNCHANGED <<now, main, lastImage, currentImage, lastDetectionAt, timers,
                 ticks, files, sent, prev, acquired>>

\* sendMail succeeds: the result is logged, the artifact removed, true returned
NotifyOk(i) ==
  /\ inv[i].pc = "notify"
  /\ sent' = Append(sent, [tick |-> i, at |-> now, detectedAt |-> inv[i].detectedAt,
                           labels |-> inv[i].labels, message |-> inv[i].message])
  /\ files' = files \ {inv[i].path}
  /\ inv' = [inv EXCEPT ![i] = returned(inv[i], "Notified")]
  /\ UNCHANGED <<now, main, lastImage, currentImage, lastDetectionAt, timers,
                 ticks, prev, acquired>>

NotifyFail(i) ==
  /\ inv[i].pc = "notify"
  /\ inv' = [inv EXCEPT ![i] = catchError(inv[i], "NotifyFailed")]
  /\ UNCHANGED <<now, main, lastImage, currentImage, lastDetectionAt, timers,
                 ticks, files, sent, prev, acquired>>

\* the .then of loop(): handleDetect's promise is fulfilled; the next tick is
\* started at once or a timer is set
loopThen(i) ==
  /\ inv[i].pc = "resolved"
  /\ prev' = [tick |-> i, outcome |-> inv[i].outcome,
              detectedAt |-> inv[i].detectedAt,
              endedAt |-> now, took |-> now - inv[i].started]
  /\ LET took == now - inv[i].started
     IN IF took > IntervalMs
        THEN loopStart(lastImage, currentImage, Without(inv, i), timers)
        ELSE /\ timers' = timers \cup {now + nextDelay(took)}
             /\ inv' = Without(inv, i)
             /\ UNCHANGED <<ticks, lastImage>>
  /\ UNCHANGED <<now, main, currentImage, lastDetectionAt, files, sent, acquired>>

\* a setTimeout(loop, delay) timer fires
TimerFire(due) ==
  /\ due <= now
  /\ loopStart(lastImage, currentImage, inv, timers \ {due})
  /\ UNCHANGED <<now, main, currentImage, lastDetectionAt, files, sent, prev, acquired>>

\* time passes; a due timer and a fulfilled promise's .then run first
Tick ==
  /\ now + Step <= MaxTime
  /\ \A due \in timers : due > now
  /\ \A i \in DOMAIN inv : inv[i].pc # "resolved"
  /\ now' = now + Step
  /\ UNCHANGED <<main, lastImage, currentImage, lastDetectionAt, inv, timers,
                 ticks, files, sent, prev, acquired>>

Next ==
  \/ StartupReadOk
  \/ StartupReadFail
  \/ \E i \in DOMAIN inv : ReadOk(i)
  \/ \E i \in DOMAIN inv : ReadFail(i)
  \/ \E i \in DOMAIN inv : WriteOk(i)
  \/ \E i \in DOMAIN inv : WriteFail(i)
  \/ \E i \in DOMAIN inv : ClassifyOk(i)
  \/ \E i \in DOMAIN inv : ClassifyFail(i)
  \/ \E i \in DOMAIN inv : NotifyOk(i)
  \/ \E i \in DOMAIN inv : NotifyFail(i)
  \/ \E i \in DOMAIN inv : loopThen(i)
  \/ \E due \in timers : TimerFire(due)
  \/ Tick

Spec == Init /\ [][Next]_vars

\* every external call eventually returns or fails, due timers fire, pending
\* .then callbacks run and time passes
LiveSpec ==
  /\ Spec
  /\ WF_vars(StartupReadOk \/ StartupReadFail)
  /\ WF_vars(\E i \in DOMAIN inv : ReadOk(i) \/ ReadFail(i))
  /\ WF_vars(\E i \in DOMAIN inv : WriteOk(i) \/ WriteFail(i))
  /\ WF_vars(\E i \in DOMAIN inv : ClassifyOk(i) \/ ClassifyFail(i))
  /\ WF_vars(\E i \in DOMAIN inv : NotifyOk(i) \/ NotifyFail(i))
  /\ WF_vars(\E i \in DOMAIN inv : loopThen(i))
  /\ WF_vars(\E due \in timers : TimerFire(due))
  /\ WF_vars(Tick)

----------------------------------------------------------------------------
(* handleSnapshot on every shape of frame store: the loop is entered with  *)
(* neither frame, with last only, or with both, one interval before the    *)
(* end of the observed run.                                                *)

StoreInit ==
  /\ now = MaxTime - IntervalMs
  /\ main = "started"
  /\ lastImage \in Frames \cup {Null}
  /\ currentImage \in (IF lastImage = Null THEN {Null} ELSE Frames \cup {Null})
  /\ acquired = IF currentImage = Null THEN <<Null, lastImage>>
                ELSE <<lastImage, currentImage>>
  /\ lastDetectionAt = 0
  /\ inv = <<>>
  /\ timers = {now}
  /\ ticks = 0
  /\ files = {}
  /\ sent = <<>>
  /\ prev = [tick |-> 0, outcome |-> "None", detectedAt |-> NoTime,
             endedAt |-> NoTime, took |-> NoTime]

StoreNext ==
  \/ \E i \in DOMAIN inv : ReadOk(i)
  \/ \E i \in DOMAIN inv : ReadFail(i)
  \/ \E i \in DOMAIN inv : WriteOk(i)
  \/ \E i \in DOMAIN inv : WriteFail(i)
  \/ \E i \in DOMAIN inv : ClassifyOk(i)
  \/ \E i \in DOMAIN inv : ClassifyFail(i)
  \/ \E i \in DOMAIN inv : NotifyOk(i)
  \/ \E i \in DOMAIN inv : NotifyFail(i)
  \/ \E i \in DOMAIN inv : loopThen(i)
  \/ \E due \in timers : TimerFire(due)
  \/ Tick

StoreSpec == StoreInit /\ [][StoreNext]_vars

----------------------------------------------------------------------------
(* Vocabulary of the properties *)

Settled == {"resolved", "rejected"}
InFlight == {i \in DOMAIN inv : inv[i].pc \notin Settled}
Ended == {i \in DOMAIN inv : inv[i].pc \in Settled}
FailedOutcomes == {"AcquireFailed", "DiffFailed", "WriteFailed", "ClassifyFailed", "NotifyFailed"}
FailedAfterCommit == {"WriteFailed", "ClassifyFailed", "NotifyFailed"}
\* the cycle has acquired its frame and gone through the cooldown test
Acquired(r) == r.checkedAt # NoTime
genericMessage == <<"Detected something on \"", cameraName, "\"">>

----------------------------------------------------------------------------
\* C1: at most one handleDetect invocation is in flight in every reachable
\* state, and while one is in flight no timer is pending that could start
\* another, whatever the durations of the external calls.
C1_Serialized ==
  /\ Cardinality(DOMAIN inv) <= 1
  /\ Cardinality(timers) <= 1
  /\ (DOMAIN inv # {} => timers = {})

\* a cycle still waiting for the mail transport more than one interval after
\* it started
C1_Witness ==
  \E i \in DOMAIN inv : inv[i].pc = "notify" /\ now - inv[i].started > IntervalMs

\* C2: no failure of a stage leaves handleDetect's promise rejected, and
\* whenever a cycle has ended (with room left in the observed run for the
\* timer to fire) a new cycle is eventually in flight.
C2_LoopGoesOn ==
  /\ [](\A i \in DOMAIN inv : inv[i].pc # "rejected")
  /\ ((Ended # {} /\ now + IntervalMs + Step <= MaxTime) ~> (InFlight # {}))

\* a tick is running after the previous cycle failed in the classifier
C2_Witness ==
  /\ prev.outcome = "ClassifyFailed"
  /\ \E i \in DOMAIN inv : i = prev.tick + 1 /\ inv[i].pc = "read"

\* C3 (as stated): once no cycle is running, no detection artifact is left
\* on disk.
C3_NoStaleArtifact == (InFlight = {}) => (files = {})

\* C4 (as stated): after a failed snapshot read, lastImage and currentImage
\* are what they were when handleSnapshot was called.
C4_StoreUnchangedOnFailedRead ==
  \A i \in DOMAIN inv :
    inv[i].outcome = "AcquireFailed" =>
      /\ lastImage = inv[i].lastBefore
      /\ currentImage = inv[i].currentBefore

\* C5: when the previous cycle notified and this cycle's dissimilar pair is
\* tested less than the cooldown after the previous detection, this cycle
\* ends TooSoon without classifying or notifying, and the two cycles together
\* sent exactly one notification.
C5_Debounce ==
  \A i \in DOMAIN inv :
    ( /\ prev.tick = i - 1
      /\ prev.outcome = "Notified"
      /\ Acquired(inv[i])
      /\ inv[i].checkedAt - prev.detectedAt < CooldownMs
      /\ diffPercent(currentImage, lastImage) > diffThreshold )
    => /\ inv[i].outcome = "TooSoon"
       /\ inv[i].classifyCalls = 0
       /\ inv[i].notifyCalls = 0
       /\ Cardinality({n \in 1..Len(sent) : sent[n].tick \in {i - 1, i}}) = 1

C5_Witness ==
  \E i \in DOMAIN inv :
    /\ prev.tick = i - 1
    /\ prev.outcome = "Notified"
    /\ inv[i].outcome = "TooSoon"
    /\ inv[i].checkedAt - prev.detectedAt < CooldownMs
    /\ diffPercent(currentImage, lastImage) > diffThreshold
    /\ Len(sent) = 1

\* C6: a cycle commits lastDetectionAt at most once: not before the diff, and
\* exactly once, with the time of the detection, before the artifact is
\* written and the classifier called; the committed value stays when a later
\* stage fails, and the next tick tested inside the cooldown ends TooSoon.
C6_CommitBeforeClassify ==
  \A i \in DOMAIN inv :
    LET r == inv[i]
    IN /\ (r.pc = "read" \/ r.outcome \in {"NotReady", "TooSoon", "Similar", "AcquireFailed", "DiffFailed"})
            => r.commits = 0
       /\ (r.pc \in {"write", "classify", "notify"} \/ r.outcome \in FailedAfterCommit \cup {"Notified"})
            => /\ r.commits = 1
               /\ lastDetectionAt = r.detectedAt
       /\ r.pc = "write" => (r.classifyCalls = 0 /\ r.path \notin files)
       /\ ( /\ prev.tick = i - 1
            /\ prev.outcome \in FailedAfterCommit
            /\ Acquired(r)
            /\ r.checkedAt - prev.detectedAt < CooldownMs )
            => (r.outcome = "TooSoon" /\ lastDetectionAt = prev.detectedAt)

\* the classifier failed, nothing was sent, and the next tick is TooSoon
C6_Witness ==
  /\ prev.outcome = "ClassifyFailed"
  /\ sent = <<>>
  /\ lastDetectionAt = prev.detectedAt
  /\ \E i \in DOMAIN inv : i = prev.tick + 1 /\ inv[i].outcome = "TooSoon"

\* C7 (as stated): a pair whose diff equals diffThreshold is Similar: no
\* commit, no classification, no notification.
C7_EqualIsSimilar ==
  \A i \in DOMAIN inv :
    ( /\ Acquired(inv[i])
      /\ inv[i].outcome \notin {"TooSoon", "DiffFailed"}
      /\ diffPercent(currentImage, lastImage) = diffThreshold )
    => /\ inv[i].outcome = "Similar"
       /\ inv[i].commits = 0
       /\ inv[i].classifyCalls = 0

\* C7 (amended): a pair whose diff equals diffThreshold is Dissimilar: the
\* cycle commits lastDetectionAt and goes on to the artifact write; only a
\* diff strictly below the threshold is Similar.
C7_EqualIsDissimilar ==
  \A i \in DOMAIN inv :
    ( /\ Acquired(inv[i])
      /\ inv[i].outcome \notin {"TooSoon", "DiffFailed"} )
    => /\ diffPercent(currentImage, lastImage) >= diffThreshold
            => (inv[i].outcome # "Similar" /\ inv[i].commits = 1)
       /\ diffPercent(currentImage, lastImage) < diffThreshold
            => (inv[i].outcome = "Similar" /\ inv[i].commits = 0)

C7_Witness ==
  \E i \in DOMAIN inv :
    /\ inv[i].pc = "write"
    /\ diffPercent(currentImage, lastImage) = diffThreshold

\* C8: whenever the classifier has answered, sendDetection was called, also
\* with an empty filtered list, and a mail with no labels carries the generic
\* text.
C8_EmptyLabelsNotified ==
  /\ \A i \in DOMAIN inv :
       (inv[i].pc = "notify" \/ inv[i].outcome \in {"NotifyFailed", "Notified"})
         => /\ inv[i].notifyCalls = 1
            /\ (inv[i].labels = <<>> => inv[i].message = genericMessage)
            /\ (inv[i].labels # <<>> => inv[i].message # genericMessage)
  /\ \A n \in 1..Len(sent) :
       sent[n].labels = <<>> => sent[n].message = genericMessage

C8_Witness == \E n \in 1..Len(sent) : sent[n].labels = <<>>

\* C9 (as stated): any two notifications are sent at least one cooldown apart.
C9_SendsCooldownApart ==
  \A m, n \in 1..Len(sent) : m < n => sent[n].at - sent[m].at >= CooldownMs

\* C9 (amended): the detections of any two notifications are at least one
\* cooldown apart (the mails themselves can be closer).
C9_DetectionsCooldownApart ==
  \A m, n \in 1..Len(sent) :
    m < n => sent[n].detectedAt - sent[m].detectedAt >= CooldownMs

C9_Witness ==
  /\ Len(sent) = 2
  /\ sent[2].at - sent[1].at < CooldownMs

\* C10 (as stated): the first tick, when its read succeeds, ends NotReady
\* with last populated, current unset and nothing sent.
C10_FirstTickNotReady ==
  (1 \in DOMAIN inv /\ inv[1].pc = "resolved" /\ inv[1].outcome # "AcquireFailed")
    => /\ inv[1].outcome = "NotReady"
       /\ lastImage # Null
       /\ currentImage = Null
       /\ sent = <<>>

\* C10 (amended): the start-up read populates last only and sends nothing;
\* every tick, the first included, finds last populated, so handleSnapshot
\* installs the frame into current and returns true, and no tick ends
\* NotReady.
C10_StartupPopulatesLast ==
  /\ main = "init" => (lastImage = Null /\ currentImage = Null /\ ticks = 0)
  /\ (ticks = 1 /\ 1 \in DOMAIN inv /\ inv[1].pc = "read")
       => (lastImage # Null /\ currentImage = Null /\ sent = <<>>)
  /\ \A i \in DOMAIN inv :
       /\ inv[i].target = "current"
       /\ inv[i].outcome # "NotReady"
       /\ Acquired(inv[i]) => (lastImage # Null /\ currentImage # Null)
  /\ prev.outcome # "NotReady"

\* the first tick of the loop notifies
C10_Witness ==
  /\ 1 \in DOMAIN inv
  /\ inv[1].outcome = "Notified"
  /\ Len(sent) = 1

\* C11: after a cycle that took 'took', the next tick is due exactly
\* max(0, IntervalMs - took) after the cycle's end: a pending timer carries
\* that due time and exists only when took <= IntervalMs, the next tick never
\* starts earlier, and it starts at the very end of a cycle that took
\* IntervalMs or more; nothing of earlier cycles enters the delay.
C11_DriftCorrected ==
  prev.tick >= 1 =>
    LET d == IF IntervalMs - prev.took > 0 THEN IntervalMs - prev.took ELSE 0
    IN /\ timers # {} => (prev.took <= IntervalMs /\ timers = {prev.endedAt + d})
       /\ \A i \in DOMAIN inv :
            i = prev.tick + 1 =>
              /\ inv[i].started >= prev.endedAt + d
              /\ prev.took >= IntervalMs => inv[i].started = prev.endedAt

\* a cycle longer than the interval, followed at once by the next tick
C11_Witness ==
  /\ prev.tick >= 1
  /\ prev.took > IntervalMs
  /\ \E i \in DOMAIN inv : i = prev.tick + 1 /\ inv[i].started = prev.endedAt

\* the answers of the classifier above the threshold, in the order returned
NamesAbove(resp) ==
  LET kept == SelectSeq(resp, LAMBDA l : l.Confidence > confidenceThreshold)
  IN [k \in 1..Len(kept) |-> kept[k].Name]

\* C12: the labels handed to sendDetection, and those of the mail sent, are
\* the names of the classifier's labels with confidence strictly above
\* confidenceThreshold, in the classifier's order.
C12_LabelsFiltered ==
  \A i \in DOMAIN inv :
    (inv[i].pc = "notify" \/ inv[i].outcome \in {"NotifyFailed", "Notified"})
      => /\ inv[i].labels = NamesAbove(inv[i].response)
         /\ inv[i].response = << [Name |-> "dog", Confidence |-> 92],
                                 [Name |-> "grass", Confidence |-> 40] >>
              => inv[i].labels = <<"dog">>
         /\ inv[i].response = << [Name |-> "cat", Confidence |-> 80] >>
              => inv[i].labels = <<>>
         /\ inv[i].response = << [Name |-> "grass", Confidence |-> 85],
                                 [Name |-> "dog", Confidence |-> 92] >>
              => inv[i].labels = <<"grass", "dog">>
         /\ inv[i].outcome = "Notified"
              => (Len(sent) > 0 /\ sent[Len(sent)].labels = inv[i].labels)

\* a mail was sent for an answer whose only label sits exactly at the threshold
C12_Witness ==
  \E i \in DOMAIN inv :
    /\ inv[i].outcome = "Notified"
    /\ inv[i].response = << [Name |-> "cat", Confidence |-> 80] >>
    /\ sent[Len(sent)].labels = <<>>

Unset == {x \in {"last", "current"} :
            IF x = "last" THEN lastImage = Null ELSE currentImage = Null}

\* C13 (as stated, from the entry into the loop on): at most one of last and
\* current is unset, and one is unset only during the first two cycles.
C13_UnsetOnlyEarly ==
  main = "started" =>
    /\ Cardinality(Unset) <= 1
    /\ Cardinality(Unset) = 1 => ticks <= 2

\* C13 (amended): until the start-up read completes both are unset; from the
\* entry into the loop on last is set, and current is unset exactly as long
\* as no snapshot read of a tick has succeeded, however many cycles that takes.
C13_UnsetUntilFirstRead ==
  /\ main # "started" => Unset = {"last", "current"}
  /\ main = "started" => lastImage # Null
  /\ main = "started" => (currentImage = Null <=> acquired[1] = Null)

\* a third cycle begins while current is still unset
C13_Witness ==
  /\ main = "started"
  /\ ticks >= 3
  /\ Unset = {"current"}

SentBy(i) == {n \in 1..Len(sent) : sent[n].tick = i}

\* C14: in a cycle the classifier is called at most once and only after the
\* commit of a Dissimilar decision, the notifier at most once and only after
\* the classifier has answered; a failed call is not repeated; a cycle that
\* ends NotReady, TooSoon, Similar or in a failure has sent nothing, and no
\* cycle sends two mails.
C14_StagesInOrderOnce ==
  /\ \A i \in DOMAIN inv :
       LET r == inv[i]
       IN /\ r.classifyCalls <= 1 /\ r.notifyCalls <= 1
          /\ r.classifyCalls = 1 => r.commits = 1
          /\ r.notifyCalls = 1 =>
               (r.classifyCalls = 1 /\ r.pc # "classify" /\ r.outcome # "ClassifyFailed")
          /\ r.pc \in {"read", "write"} => (r.classifyCalls = 0 /\ r.notifyCalls = 0)
          /\ r.pc = "classify" => (r.classifyCalls = 1 /\ r.notifyCalls = 0)
          /\ r.pc = "notify" => (r.classifyCalls = 1 /\ r.notifyCalls = 1)
          /\ r.outcome = "ClassifyFailed" => (r.classifyCalls = 1 /\ r.notifyCalls = 0)
          /\ r.outcome = "NotifyFailed" => (r.classifyCalls = 1 /\ r.notifyCalls = 1)
          /\ r.outcome \in {"NotReady", "TooSoon", "Similar", "AcquireFailed", "DiffFailed", "WriteFailed"}
               => (r.classifyCalls = 0 /\ r.notifyCalls = 0)
          /\ r.outcome # "Notified" => SentBy(i) = {}
          /\ Cardinality(SentBy(i)) <= 1
  /\ prev.outcome # "Notified" => SentBy(prev.tick) = {}
  /\ \A m, n \in 1..Len(sent) : m < n => sent[m].tick < sent[n].tick

\* the mail transport failed after one classifier call and one send attempt
C14_Witness ==
  \E i \in DOMAIN inv :
    /\ inv[i].outcome = "NotifyFailed"
    /\ inv[i].classifyCalls = 1
    /\ inv[i].notifyCalls = 1
    /\ SentBy(i) = {}

\* C15 (checked under StoreSpec): a successful handleSnapshot called on
\* (last = L, current = C) with the frame N read leaves (C, N) and returns
\* true when both were set, (L, N) and true when only last was set, and
\* (N, unset) and false when neither was set; it returns true exactly when
\* both are populated afterwards.
C15_AcquireRotates ==
  \A i \in DOMAIN inv :
    LET r == inv[i]
        L == r.lastBefore
        C == r.currentBefore
        N == acquired[2]
        returnedTrue == r.outcome # "NotReady"
    IN (r.pc # "read" /\ r.outcome # "AcquireFailed") =>
         /\ (L # Null /\ C # Null)
              => (lastImage = C /\ currentImage = N /\ returnedTrue)
         /\ (L # Null /\ C = Null)
              => (lastImage = L /\ currentImage = N /\ returnedTrue)
         /\ (L = Null /\ C = Null)
              => (lastImage = N /\ currentImage = Null /\ ~returnedTrue)
         /\ returnedTrue <=> (lastImage # Null /\ currentImage # Null)

\* handleSnapshot has run on an empty store
C15_Witness ==
  \E i \in DOMAIN inv :
    /\ inv[i].lastBefore = Null
    /\ inv[i].currentBefore = Null
    /\ inv[i].outcome = "NotReady"
    /\ lastImage = acquired[2]
    /\ currentImage = Null

\* C16: lastDetectionAt changes only in the step in which a cycle passes from
\* its snapshot read to the artifact write (the commit of a Dissimilar
\* decision), and then to the current time; a step that ends a cycle
\* NotReady, TooSoon, Similar or in a failed read or diff leaves it; and
\* lastImage and currentImage change only in the start-up read, in the
\* synchronous head of handleSnapshot and in the completion of its read.
C16_SingleWriters ==
  [][ /\ lastDetectionAt' # lastDetectionAt =>
           \E i \in DOMAIN inv \cap DOMAIN inv' :
             /\ inv[i].pc = "read"
             /\ inv'[i].pc = "write"
             /\ inv'[i].commits = 1
             /\ lastDetectionAt' = now
      /\ \A i \in DOMAIN inv \cap DOMAIN inv' :
           ( /\ inv[i].outcome = "Running"
             /\ inv'[i].outcome \in {"NotReady", "TooSoon", "Similar", "AcquireFailed", "DiffFailed"} )
           => lastDetectionAt' = lastDetectionAt
      /\ (lastImage' # lastImage \/ currentImage' # currentImage) =>
           \/ main = "init" /\ main' = "started"
           \/ ticks' = ticks + 1 /\ currentImage' = currentImage
           \/ \E i \in DOMAIN inv \cap DOMAIN inv' :
                /\ inv[i].pc = "read"
                /\ inv'[i].pc # "read"
                /\ inv'[i].outcome # "AcquireFailed"
    ]_vars

\* a Similar cycle has ended long after an earlier detection, whose time
\* lastDetectionAt still holds
C16_Witness ==
  \E i \in DOMAIN inv :
    /\ inv[i].outcome = "Similar"
    /\ lastDetectionAt > 0
    /\ lastDetectionAt < inv[i].started

\* C17: in every cycle whose read succeeded, TooSoon cycles included, the
\* store holds the two frames most recently read from the camera: current is
\* the frame of this cycle and last the one read before it, which was current
\* when the cycle began; so the diff evaluated once the cooldown has expired
\* compares those two frames.
C17_PairIsMostRecent ==
  \A i \in DOMAIN inv :
    Acquired(inv[i]) =>
      /\ lastImage = acquired[1]
      /\ currentImage = acquired[2]
      /\ inv[i].currentBefore # Null => lastImage = inv[i].currentBefore

\* a detection in the cycle after a TooSoon cycle: the pair compared is the
\* TooSoon cycle's frame and the new one
C17_Witness ==
  /\ prev.outcome = "TooSoon"
  /\ \E i \in DOMAIN inv :
       /\ i = prev.tick + 1
       /\ inv[i].pc = "write"
       /\ lastImage = acquired[1]
       /\ currentImage = acquired[2]
       /\ lastImage = inv[i].currentBefore

\* C18: lastDetectionAt never decreases, and every commit sets it to the
\* current time, at least one cooldown after the value it replaces, however
\* the cycle of the earlier commit ended.
C18_CommitsCooldownApart ==
  [][ /\ lastDetectionAt' >= lastDetectionAt
      /\ \A i \in DOMAIN inv \cap DOMAIN inv' :
           inv'[i].commits = inv[i].commits + 1 =>
             /\ lastDetectionAt' = now
             /\ lastDetectionAt' - lastDetectionAt >= CooldownMs
    ]_vars

\* a second commit, after a cycle whose classifier call failed
C18_Witness ==
  /\ prev.outcome = "ClassifyFailed"
  /\ \E i \in DOMAIN inv :
       /\ inv[i].pc = "write"
       /\ lastDetectionAt = inv[i].detectedAt
       /\ inv[i].detectedAt - prev.detectedAt >= CooldownMs

\* C19: a tick has run only if the start-up read succeeded and set last;
\* after a failed start-up read no tick, timer or invocation ever exists, the
\* store stays empty, and the program never leaves that state (no retry).
C19_LoopOnlyAfterStartupRead ==
  /\ [](ticks >= 1 => (main = "started" /\ lastImage # Null))
  /\ [](main # "started" =>
          /\ ticks = 0
          /\ DOMAIN inv = {}
          /\ timers = {}
          /\ lastImage = Null
          /\ currentImage = Null
          /\ sent = <<>>)
  /\ [][main = "dead" => main' = "dead"]_vars

\* time goes by after a failed start-up read
C19_Witness ==
  /\ main = "dead"
  /\ now > StartTime
  /\ ticks = 0

====
